---------------------------- MODULE Spec2Model ----------------------------
(***************************************************************************)
(* A model of python_rdap_script_domain_expiry.py: a monitoring probe that *)
(* reads a domain's expiration date from a per-domain cache file or from   *)
(* the RDAP service, parses it, and reports OK / WARNING / CRITICAL /      *)
(* UNKNOWN through its exit code and one line on standard output.          *)
(*                                                                         *)
(* Text (file contents, eventDate values) is a sequence of one-character   *)
(* strings, so that strip() and strptime() are computed on characters.     *)
(***************************************************************************)
EXTENDS Integers, Sequences

-----------------------------------------------------------------------------
(* Program constants.                                                      *)

CACHE_AGE == 8 * 3600

STATE_OK == 0
STATE_WARNING == 1
STATE_CRITICAL == 2
STATE_UNKNOWN == 3

SecondsPerDay == 86400

DefaultWarning == 30
DefaultCritical == 10

ArgparseErrorExit == 2

-----------------------------------------------------------------------------
(* Characters and str.strip().                                             *)

Digits == <<"0", "1", "2", "3", "4", "5", "6", "7", "8", "9">>

IsDigit(c) == \E i \in 1..10 : Digits[i] = c

DigitVal(c) == (CHOOSE i \in 1..10 : Digits[i] = c) - 1

\* The whitespace characters that occur in the texts of this model.
IsSpace(c) == c \in {" ", "\n"}

RECURSIVE lstrip(_)
lstrip(s) ==
    IF s # <<>> /\ IsSpace(Head(s)) THEN lstrip(Tail(s)) ELSE s

RECURSIVE rstrip(_)
rstrip(s) ==
    IF s # <<>> /\ IsSpace(s[Len(s)]) THEN rstrip(SubSeq(s, 1, Len(s) - 1)) ELSE s

strip(s) == rstrip(lstrip(s))

-----------------------------------------------------------------------------
(* datetime.strptime(date_str, fmt) for the two formats of                 *)
(* parse_rdap_date.  A format is a sequence of items: a directive          *)
(* ("Y", "m", "d", "H", "M", "S", "f") or a literal character.  Every      *)
(* directive is followed by a literal, so the regular expression strptime  *)
(* builds matches a directive against the maximal run of digits at its     *)
(* place: exactly 4 for %Y, 1 or 2 for %m %d %H %M %S, 1 to 6 for %f.      *)
(* A value the datetime constructor refuses (month 13, February 30,        *)
(* second 60) raises ValueError like a mismatch does.                      *)

FormatA == <<"Y", "-", "m", "-", "d", "T", "H", ":", "M", ":", "S", ".", "f", "Z">>
FormatB == <<"Y", "-", "m", "-", "d", "T", "H", ":", "M", ":", "S", "Z">>

Directives == {"Y", "m", "d", "H", "M", "S", "f"}

MinWidth(dir) == IF dir = "Y" THEN 4 ELSE 1
MaxWidth(dir) == IF dir = "Y" THEN 4 ELSE IF dir = "f" THEN 6 ELSE 2

RECURSIVE DigitRun(_, _, _)
DigitRun(s, i, max) ==
    IF max > 0 /\ i <= Len(s) /\ IsDigit(s[i])
    THEN 1 + DigitRun(s, i + 1, max - 1)
    ELSE 0

RECURSIVE Number(_, _, _)
Number(s, i, n) ==
    IF n = 0 THEN 0
    ELSE 10 * Number(s, i, n - 1) + DigitVal(s[i + n - 1])

RECURSIVE Pow10(_)
Pow10(n) == IF n = 0 THEN 1 ELSE 10 * Pow10(n - 1)

ValueError == [ok |-> FALSE]

NoFields == [Y |-> 0, m |-> 0, d |-> 0, H |-> 0, M |-> 0, S |-> 0, f |-> 0]

RECURSIVE Match(_, _, _, _, _)
Match(s, i, fmt, k, fields) ==
    IF k > Len(fmt)
    THEN IF i = Len(s) + 1 THEN [ok |-> TRUE, fields |-> fields] ELSE ValueError
    ELSE IF fmt[k] \in Directives
    THEN LET n == DigitRun(s, i, MaxWidth(fmt[k]))
             v == Number(s, i, n)
         IN IF n < MinWidth(fmt[k]) THEN ValueError
            ELSE Match(s, i + n, fmt, k + 1,
                       [fields EXCEPT ![fmt[k]] =
                           IF fmt[k] = "f" THEN v * Pow10(6 - n) ELSE v])
    ELSE IF i <= Len(s) /\ s[i] = fmt[k]
    THEN Match(s, i + 1, fmt, k + 1, fields)
    ELSE ValueError

IsLeap(y) == (y % 4 = 0) /\ ((y % 100 # 0) \/ (y % 400 = 0))

DaysInMonth(y, m) ==
    IF m = 2 THEN (IF IsLeap(y) THEN 29 ELSE 28)
    ELSE IF m \in {4, 6, 9, 11} THEN 30 ELSE 31

ValidFields(f) ==
    /\ f.Y >= 1
    /\ f.m \in 1..12
    /\ f.d >= 1 /\ f.d <= DaysInMonth(f.Y, f.m)
    /\ f.H \in 0..23
    /\ f.M \in 0..59
    /\ f.S \in 0..59

strptime(s, fmt) ==
    LET r == Match(s, 1, fmt, 1, NoFields)
    IN IF r.ok /\ ValidFields(r.fields) THEN r ELSE ValueError

-----------------------------------------------------------------------------
(* datetime.timestamp() of the naive datetime strptime returns, and int(). *)
(* A naive datetime is taken as local time: the epoch second is the one    *)
(* of the written fields read as UTC, less the zone's offset from UTC.     *)

DaysFromCivil(y, m, d) ==
    LET yy  == IF m <= 2 THEN y - 1 ELSE y
        era == yy \div 400
        yoe == yy - era * 400
        mp  == IF m > 2 THEN m - 3 ELSE m + 9
        doy == (153 * mp + 2) \div 5 + d - 1
        doe == yoe * 365 + yoe \div 4 - yoe \div 100 + doy
    IN era * 146097 + doe - 719468

UtcSeconds(f) ==
    DaysFromCivil(f.Y, f.m, f.d) * SecondsPerDay + f.H * 3600 + f.M * 60 + f.S

\* int(x) truncates toward zero: the float is secs + micro / 10^6.
IntOfTimestamp(secs, micro) ==
    IF secs < 0 /\ micro > 0 THEN secs + 1 ELSE secs

timestamp_int(f, utcoffset) == IntOfTimestamp(UtcSeconds(f) - utcoffset, f.f)

\* parse_rdap_date: ok with the integer it returns, or not ok where it calls
\* die(STATE_UNKNOWN, "UNKNOWN - Invalid expiration date format: ...").
parse_rdap_date(date_str, utcoffset) ==
    LET a == strptime(date_str, FormatA)
        b == strptime(date_str, FormatB)
    IN IF a.ok THEN [ok |-> TRUE, value |-> timestamp_int(a.fields, utcoffset)]
       ELSE IF b.ok THEN [ok |-> TRUE, value |-> timestamp_int(b.fields, utcoffset)]
       ELSE [ok |-> FALSE, value |-> 0]

-----------------------------------------------------------------------------
(* Python values that may be a string, an integer or None: an eventDate of *)
(* the JSON body, the result of load_cached_data, an optional argument.    *)

PyNone == [t |-> "none", s |-> <<>>, n |-> 0]
PyStr(s) == [t |-> "str", s |-> s, n |-> 0]
PyInt(n) == [t |-> "int", s |-> <<>>, n |-> n]

\* The truth value Python gives v in "if v:".
Truthy(v) == (v.t = "str" /\ v.s # <<>>) \/ (v.t = "int" /\ v.n # 0)

-----------------------------------------------------------------------------
(* Bounds of the model.                                                    *)

\* Invocations of the program in one behaviour.
MaxRuns == 2

\* Steps of the clock in one behaviour.
MaxTicks == 1

-----------------------------------------------------------------------------
(* Inputs: the command line, the clock, the host's time zone, the bodies   *)
(* the RDAP service answers with.                                          *)

Procs == {1, 2}

Domains == {"example.com", "example.org"}

\* time.time() when the first invocation starts: 2025-03-01T00:00:00 UTC.
NowStart == 1740787200

\* The clock advances to a second short of CACHE_AGE, or by CACHE_AGE.
TickSteps == {CACHE_AGE - 1, CACHE_AGE}

\* utcoffset of the host's local time zone, in seconds: UTC, IST.
UtcOffsets == {0, 19800}

RECURSIVE DigitText(_, _)
DigitText(n, width) ==
    IF width = 0 THEN <<>>
    ELSE Append(DigitText(n \div 10, width - 1), Digits[(n % 10) + 1])

\* The text "YYYY-MM-DDTHH:MM:SS" of a date and time.
IsoText(Y, m, d, H, M, S) ==
    DigitText(Y, 4) \o <<"-">> \o DigitText(m, 2) \o <<"-">> \o DigitText(d, 2)
        \o <<"T">> \o DigitText(H, 2) \o <<":">> \o DigitText(M, 2)
        \o <<":">> \o DigitText(S, 2)

Z == <<"Z">>

\* eventDate values of the service: format A (27 characters), format B (20).
DateLong == IsoText(2025, 3, 2, 12, 0, 0) \o <<".", "0", "0", "0", "0", "0", "0">> \o Z
DateShort == IsoText(2025, 2, 27, 0, 0, 0) \o Z

Event(action, date) == [eventAction |-> action, eventDate |-> date]

\* The "events" lists of the bodies response.json() returns.
Responses ==
    { <<Event("expiration", PyStr(DateLong))>>,
      <<Event("registration", PyStr(DateShort)), Event("expiration", PyStr(<<>>)),
        Event("expiration", PyStr(DateLong))>>,
      <<Event("expiration", PyStr(DateShort)), Event("expiration", PyStr(DateLong))>>,
      <<Event("expiration", PyNone)>>,
      <<>>,
      <<Event("expiration", PyStr(<<" ">>))>>,
      <<Event("expiration", PyStr(<<" ">> \o DateShort \o <<"\n">>))>>,
      <<Event("expiration", PyInt(5))>> }

\* -w and -c as given on the command line (None: the option is absent).
ThresholdArgs ==
    {[warning |-> PyNone, critical |-> PyNone], [warning |-> PyInt(2), critical |-> PyInt(1)]}

\* sys.argv: a command line argparse accepts, or one it refuses (no -d, or
\* a -w or -c that is no integer).
CommandLines ==
    {[valid |-> FALSE, domain |-> "", warning |-> PyNone, critical |-> PyNone]}
    \cup {[valid |-> TRUE, domain |-> d, warning |-> t.warning, critical |-> t.critical] :
             d \in Domains, t \in ThresholdArgs}

-----------------------------------------------------------------------------
(* State.                                                                  *)

VARIABLES
    now,        \* time.time(), in whole seconds
    ticks,      \* steps the clock has taken
    runs,       \* invocations started
    utcoffset,  \* the host's time zone
    sequential, \* TRUE: an invocation starts after the previous one ended
    files,      \* CACHE_DIR: the cache file of each domain
    inv         \* the invocations: each process's position and locals

vars == <<now, ticks, runs, utcoffset, sequential, files, inv>>

\* A cache file.  saved and writer are history: the data of the last
\* save_to_cache that completed with no open() of the file since, and the
\* process whose write() reached the file last.
NoFile == [exists |-> FALSE, data |-> <<>>, mtime |-> 0, saved |-> PyNone, writer |-> 0]

\* An invocation before main() runs.
Idle ==
    [pc |-> "idle", domain |-> "", warning |-> 0, critical |-> 0,
     seen |-> NoFile, seen_at |-> 0, cached |-> PyNone,
     requests |-> 0, fetched |-> "no", events |-> <<>>, picked |-> PyNone,
     before |-> NoFile, save_error |-> FALSE, wrote |-> FALSE,
     expiration_date |-> <<>>, parsed |-> [ok |-> FALSE, value |-> 0],
     now_seconds |-> 0, days_left |-> 0, evaluated |-> FALSE,
     stdout |-> <<>>, exit |-> -1, died |-> FALSE]

-----------------------------------------------------------------------------
(* die, and the cache store.                                               *)

\* die(state, message): print(message); sys.exit(state).  A message is its
\* status prefix (the word before " - "), the kind of its details and the
\* number of days it names.
die(r, state, message) ==
    [r EXCEPT !.pc = "exited", !.exit = state, !.died = TRUE,
              !.stdout = Append(@, message)]

Message(prefix, details, days) == [prefix |-> prefix, details |-> details, days |-> days]

\* Mutant: the age test admits an age of exactly CACHE_AGE.
cache_is_fresh_inclusive(age) == age <= CACHE_AGE

\* time.time() - os.path.getmtime(cache_file) < CACHE_AGE
cache_is_fresh(age) == age < CACHE_AGE

\* Mutant: the text is returned as read, not stripped.
load_cached_data_unstripped(file, t) ==
    IF file.exists /\ (t - file.mtime < CACHE_AGE)
    THEN PyStr(file.data)
    ELSE PyNone

\* What load_cached_data returns for the file as it is at time t.
load_cached_data(file, t) ==
    IF file.exists /\ cache_is_fresh(t - file.mtime)
    THEN PyStr(strip(file.data))
    ELSE PyNone

\* open(cache_file, "w"): the file exists, empty, modified now.
open_w(file, t) ==
    [file EXCEPT !.exists = TRUE, !.data = <<>>, !.mtime = t, !.saved = PyNone]

\* Mutant: the file is opened for appending.
write_append(old, data) == old \o data

\* write() through a descriptor at offset 0, then close(): data replaces
\* the first Len(data) characters and what lies beyond them stays.
write_at_0(old, data) ==
    data \o SubSeq(old, Len(data) + 1, Len(old))

-----------------------------------------------------------------------------
(* get_domain_expiration.                                                  *)

\* Mutant: the cached value is looked up and then ignored.
cache_hit_never(cached) == FALSE

\* "if cached: return cached"
cache_hit(cached) == Truthy(cached)

\* Mutant: the loop ends at the first entry whose eventAction is
\* "expiration", with or without a date.
RECURSIVE find_expiration_first_only(_)
find_expiration_first_only(events) ==
    IF events = <<>> THEN PyNone
    ELSE LET event == Head(events)
         IN IF event.eventAction = "expiration"
            THEN (IF Truthy(event.eventDate) THEN event.eventDate ELSE PyNone)
            ELSE find_expiration_first_only(Tail(events))

\* The loop over events: the eventDate it passes to save_to_cache, or None
\* where it falls through to die(STATE_UNKNOWN, "... Expiry date not found").
RECURSIVE find_expiration(_)
find_expiration(events) ==
    IF events = <<>> THEN PyNone
    ELSE LET event == Head(events)
         IN IF event.eventAction = "expiration" /\ Truthy(event.eventDate)
            THEN event.eventDate
            ELSE find_expiration(Tail(events))

\* Mutant: the handler asks again instead of ending the invocation.
on_request_error_retry(r) == [r EXCEPT !.fetched = "error", !.pc = "request"]

\* "except Exception as e" for an error of requests.get or response.json.
on_request_error(r) ==
    die([r EXCEPT !.fetched = "error"], STATE_UNKNOWN,
        Message("UNKNOWN", "Error fetching RDAP data", 0))

\* Mutant: save_to_cache is called outside the try block, so its error ends
\* the process with a traceback and Python's exit status 1.
on_save_error_uncaught(r) ==
    [r EXCEPT !.save_error = TRUE, !.pc = "exited", !.exit = 1]

\* "except Exception as e" for an error raised inside save_to_cache, which
\* is called within the try block.
on_save_error(r) ==
    die([r EXCEPT !.save_error = TRUE], STATE_UNKNOWN,
        Message("UNKNOWN", "Error fetching RDAP data", 0))

-----------------------------------------------------------------------------
(* main.                                                                   *)

\* Mutant: the comparisons with the thresholds admit equality.
threshold_report_inclusive(days_left, warning, critical) ==
    IF days_left < 0
    THEN [state |-> STATE_CRITICAL, message |-> Message("CRITICAL", "expired days ago", -days_left)]
    ELSE IF days_left <= critical
    THEN [state |-> STATE_CRITICAL, message |-> Message("CRITICAL", "will expire in days", days_left)]
    ELSE IF days_left <= warning
    THEN [state |-> STATE_WARNING, message |-> Message("WARNING", "will expire in days", days_left)]
    ELSE [state |-> STATE_OK, message |-> Message("OK", "will expire in days", days_left)]

\* The if / elif chain of main: the state and the message handed to die.
threshold_report(days_left, warning, critical) ==
    IF days_left < 0
    THEN [state |-> STATE_CRITICAL, message |-> Message("CRITICAL", "expired days ago", -days_left)]
    ELSE IF days_left < critical
    THEN [state |-> STATE_CRITICAL, message |-> Message("CRITICAL", "will expire in days", days_left)]
    ELSE IF days_left < warning
    THEN [state |-> STATE_WARNING, message |-> Message("WARNING", "will expire in days", days_left)]
    ELSE [state |-> STATE_OK, message |-> Message("OK", "will expire in days", days_left)]

\* (exp_seconds - now_seconds) // 86400: Python's floor division.
days_between(exp_seconds, now_seconds) ==
    (exp_seconds - now_seconds) \div SecondsPerDay

-----------------------------------------------------------------------------
(* Actions.                                                                *)

\* main() starts: parser.parse_args().  A refused command line makes
\* argparse print the usage to standard error and exit with status 2.
\* Successive invocations reuse process 1; overlapping ones are 1 and 2.
Invoke(p, argv) ==
    /\ runs < MaxRuns
    /\ IF sequential
       THEN p = 1 /\ inv[p].pc \in {"idle", "exited"}
       ELSE inv[p].pc = "idle"
    /\ runs' = runs + 1
    /\ inv' = [inv EXCEPT ![p] =
          IF argv.valid
          THEN [Idle EXCEPT
                  !.pc = "load",
                  !.domain = argv.domain,
                  !.warning = IF argv.warning.t = "none" THEN DefaultWarning
                              ELSE argv.warning.n,
                  !.critical = IF argv.critical.t = "none" THEN DefaultCritical
                               ELSE argv.critical.n]
          ELSE [Idle EXCEPT !.pc = "exited", !.exit = ArgparseErrorExit]]
    /\ UNCHANGED <<now, ticks, utcoffset, sequential, files>>

\* get_domain_expiration, to its return of the cached value or to the
\* request.
LoadCache(p) ==
    /\ inv[p].pc = "load"
    /\ LET r == inv[p]
           file == files[r.domain]
           cached == load_cached_data(file, now)
           s == [r EXCEPT !.seen = file, !.seen_at = now, !.cached = cached]
       IN inv' = [inv EXCEPT ![p] =
             IF cache_hit(cached)
             THEN [s EXCEPT !.pc = "evaluate", !.expiration_date = cached.s]
             ELSE [s EXCEPT !.pc = "request"]]
    /\ UNCHANGED <<now, ticks, runs, utcoffset, sequential, files>>

\* requests.get or response.json raises.
RequestFails(p) ==
    /\ inv[p].pc = "request"
    /\ LET r == inv[p]
       IN inv' = [inv EXCEPT ![p] =
             on_request_error([r EXCEPT !.requests = @ + 1,
                                        !.before = files[r.domain]])]
    /\ UNCHANGED <<now, ticks, runs, utcoffset, sequential, files>>

\* The service answers with a body whose "events" are events.  The loop
\* picks a date or finds none; save_to_cache then creates the directory and
\* opens the file for writing (opened tells whether that succeeds).
RequestAnswers(p, events, opened) ==
    /\ inv[p].pc = "request"
    /\ LET r == inv[p]
           picked == find_expiration(events)
           s == [r EXCEPT !.requests = @ + 1, !.before = files[r.domain],
                          !.fetched = "ok", !.events = events, !.picked = picked]
       IN IF ~Truthy(picked)
          THEN /\ inv' = [inv EXCEPT ![p] =
                     die(s, STATE_UNKNOWN, Message("UNKNOWN", "Expiry date not found", 0))]
               /\ UNCHANGED files
          ELSE IF opened
          THEN /\ inv' = [inv EXCEPT ![p] = [s EXCEPT !.pc = "write"]]
               /\ files' = [files EXCEPT ![r.domain] = open_w(@, now)]
          ELSE /\ inv' = [inv EXCEPT ![p] = on_save_error(s)]
               /\ UNCHANGED files
    /\ UNCHANGED <<now, ticks, runs, utcoffset, sequential>>

\* f.write(data) and the close of the "with" block, then "return
\* expiration".  write() raises TypeError for a date that is no string;
\* written tells whether the write to the file system succeeds.
WriteCache(p, written) ==
    /\ inv[p].pc = "write"
    /\ LET r == inv[p]
       IN IF r.picked.t = "str" /\ written
          THEN /\ files' = [files EXCEPT ![r.domain] =
                     [@ EXCEPT !.data = write_at_0(@, r.picked.s), !.mtime = now,
                               !.saved = r.picked, !.writer = p]]
               /\ inv' = [inv EXCEPT ![p] =
                     [r EXCEPT !.pc = "evaluate", !.wrote = TRUE,
                               !.expiration_date = r.picked.s]]
          ELSE /\ inv' = [inv EXCEPT ![p] = on_save_error(r)]
               /\ UNCHANGED files
    /\ UNCHANGED <<now, ticks, runs, utcoffset, sequential>>

\* main, from parse_rdap_date to the die that ends it.
Evaluate(p) ==
    /\ inv[p].pc = "evaluate"
    /\ LET r == inv[p]
           parsed == parse_rdap_date(r.expiration_date, utcoffset)
           days_left == days_between(parsed.value, now)
           report == threshold_report(days_left, r.warning, r.critical)
       IN inv' = [inv EXCEPT ![p] =
             IF ~parsed.ok
             THEN die([r EXCEPT !.parsed = parsed], STATE_UNKNOWN,
                      Message("UNKNOWN", "Invalid expiration date format", 0))
             ELSE die([r EXCEPT !.parsed = parsed, !.now_seconds = now,
                                !.days_left = days_left, !.evaluated = TRUE],
                      report.state, report.message)]
    /\ UNCHANGED <<now, ticks, runs, utcoffset, sequential, files>>

\* Time passes.
Tick(step) ==
    /\ ticks < MaxTicks
    /\ ticks' = ticks + 1
    /\ now' = now + step
    /\ UNCHANGED <<runs, utcoffset, sequential, files, inv>>

Next ==
    \/ \E p \in Procs, argv \in CommandLines : Invoke(p, argv)
    \/ \E p \in Procs : LoadCache(p)
    \/ \E p \in Procs : RequestFails(p)
    \/ \E p \in Procs, events \in Responses, opened \in BOOLEAN :
          RequestAnswers(p, events, opened)
    \/ \E p \in Procs, written \in BOOLEAN : WriteCache(p, written)
    \/ \E p \in Procs : Evaluate(p)
    \/ \E step \in TickSteps : Tick(step)

\* Invocations one after another, from an empty cache directory.
Init ==
    /\ now = NowStart
    /\ ticks = 0
    /\ runs = 0
    /\ utcoffset \in UtcOffsets
    /\ sequential = TRUE
    /\ files = [d \in Domains |-> NoFile]
    /\ inv = [p \in Procs |-> Idle]

Spec == Init /\ [][Next]_vars

-----------------------------------------------------------------------------
(* What the properties below speak of.                                     *)

\* The invocation has been through load_cached_data.
Loaded(p) ==
    \/ inv[p].pc \in {"request", "write", "evaluate"}
    \/ inv[p].pc = "exited" /\ inv[p].died

\* The age load_cached_data found the cache file to have.
SeenAge(p) == inv[p].seen_at - inv[p].seen.mtime

\* The file was there and younger than 28800 seconds.
SeenFresh(p) == inv[p].seen.exists /\ SeenAge(p) < 28800

\* get_domain_expiration returned text to main.
Returned(p) ==
    \/ inv[p].pc = "evaluate"
    \/ inv[p].pc = "exited" /\ inv[p].parsed.ok
    \/ inv[p].pc = "exited" /\ inv[p].died
          /\ inv[p].stdout[1].details = "Invalid expiration date format"

StatusCode(prefix) ==
    CASE prefix = "OK" -> 0
      [] prefix = "WARNING" -> 1
      [] prefix = "CRITICAL" -> 2
      [] prefix = "UNKNOWN" -> 3
      [] OTHER -> -1

-----------------------------------------------------------------------------
(* C1 as stated: a cache file younger than 28800 seconds is returned and   *)
(* no request is made, whatever the file holds.                            *)
C1_FreshFileAnyContent ==
    \A p \in Procs :
        Loaded(p) /\ SeenFresh(p)
            => /\ inv[p].requests = 0
               /\ Returned(p)
               /\ inv[p].expiration_date = strip(inv[p].seen.data)

(* C1 as amended: a cache file younger than 28800 seconds whose content is *)
(* not empty once surrounding whitespace is stripped is returned, stripped, *)
(* and no request is made; a fresh file that is empty or all whitespace    *)
(* counts as a miss and the service is queried.                            *)
C1_FreshNonEmptyFile ==
    \A p \in Procs :
        Loaded(p) /\ SeenFresh(p)
            => IF \E i \in 1..Len(inv[p].seen.data) : ~IsSpace(inv[p].seen.data[i])
               THEN /\ inv[p].requests = 0
                    /\ Returned(p)
                    /\ inv[p].expiration_date = strip(inv[p].seen.data)
               ELSE inv[p].pc = "request" \/ inv[p].requests = 1

\* An invocation ended after a hit on a file 28799 seconds old.
C1_Witness ==
    \E p \in Procs :
        /\ inv[p].pc = "exited" /\ inv[p].evaluated
        /\ SeenFresh(p) /\ SeenAge(p) = 28799
        /\ inv[p].requests = 0
        /\ inv[p].expiration_date = DateLong

-----------------------------------------------------------------------------
\* The service answered with a body, of which the events were scanned.
Answered(p) == inv[p].fetched = "ok"

IsExpiration(event) == event.eventAction = "expiration"

\* Entries of the invocation's events whose eventAction is "expiration".
ExpirationEntries(p) ==
    {i \in 1..Len(inv[p].events) : IsExpiration(inv[p].events[i])}

\* Those of them whose eventDate is there and not empty.
DatedEntries(p) ==
    {i \in ExpirationEntries(p) : Truthy(inv[p].events[i].eventDate)}

Least(S) == CHOOSE i \in S : \A j \in S : i <= j

\* The invocation ended in "UNKNOWN - Expiry date not found", exit 3,
\* having written nothing.
EndedNotFound(p) ==
    /\ inv[p].pc = "exited" /\ inv[p].exit = 3
    /\ inv[p].stdout = <<Message("UNKNOWN", "Expiry date not found", 0)>>
    /\ ~inv[p].wrote /\ files[inv[p].domain] = inv[p].before

\* The date went to save_to_cache and, unless the save raised, is in the
\* cache file and was returned.
SavedAndReturned(p, date) ==
    /\ inv[p].picked = date
    /\ \/ inv[p].pc = "write"
       \/ inv[p].save_error
       \/ /\ inv[p].wrote /\ Returned(p)
          /\ date.t = "str"
          /\ inv[p].expiration_date = date.s
          /\ files[inv[p].domain].data = date.s

-----------------------------------------------------------------------------
(* C4 as stated: a load within the freshness window after a completed      *)
(* save of ts, with no write between, returns ts unmodified.               *)
C4_RoundTripExact ==
    \A p \in Procs :
        Loaded(p) /\ SeenFresh(p) /\ inv[p].seen.saved.t = "str"
            => inv[p].cached = inv[p].seen.saved

\* s without the whitespace at its two ends, said without strip().
IsTrimOf(r, s) ==
    \E i \in 1..(Len(s) + 1), j \in 0..Len(s) :
        /\ r = SubSeq(s, i, j)
        /\ \A k \in 1..(i - 1) : IsSpace(s[k])
        /\ \A k \in (j + 1)..Len(s) : IsSpace(s[k])
        /\ (i <= j => ~IsSpace(s[i]) /\ ~IsSpace(s[j]))
        /\ (i > j => r = <<>>)

(* C4 as amended: a load within the freshness window after a completed     *)
(* save of ts, with no write between, returns ts without its leading and   *)
(* trailing whitespace: ts itself exactly when ts has none.                *)
C4_RoundTripStripped ==
    \A p \in Procs :
        Loaded(p) /\ SeenFresh(p) /\ inv[p].seen.saved.t = "str"
            => /\ inv[p].cached.t = "str"
               /\ IsTrimOf(inv[p].cached.s, inv[p].seen.saved.s)

\* A date saved with whitespace around it came back without it.
C4_Witness ==
    \E p \in Procs :
        /\ Loaded(p) /\ SeenFresh(p)
        /\ inv[p].seen.saved = PyStr(<<" ">> \o DateShort \o <<"\n">>)
        /\ inv[p].cached = PyStr(DateShort)

-----------------------------------------------------------------------------
(* C5: with no cache file, or one whose age is 28800 seconds or more,      *)
(* load_cached_data returns None and get_domain_expiration queries the     *)
(* service.                                                                *)
C5_StaleOrAbsentIsQueried ==
    \A p \in Procs :
        Loaded(p) /\ (~inv[p].seen.exists \/ SeenAge(p) >= 28800)
            => /\ inv[p].cached = PyNone
               /\ inv[p].pc = "request" \/ inv[p].requests = 1

\* A file exactly 28800 seconds old was passed over and the service asked.
C5_Witness ==
    \E p \in Procs :
        /\ inv[p].seen.exists /\ inv[p].seen.data = DateLong
        /\ SeenAge(p) = 28800
        /\ inv[p].requests = 1 /\ inv[p].fetched = "ok"

-----------------------------------------------------------------------------
(* C6: every invocation ends through die, with exactly one line on         *)
(* standard output whose status prefix is the one of its exit code.        *)
C6_EveryExitThroughDie ==
    \A p \in Procs :
        inv[p].pc = "exited"
            => /\ inv[p].died
               /\ Len(inv[p].stdout) = 1
               /\ inv[p].exit \in 0..3
               /\ inv[p].exit = StatusCode(inv[p].stdout[1].prefix)

-----------------------------------------------------------------------------
(* C7: an error of the request or of the parsing of its body ends the      *)
(* invocation at once with UNKNOWN, exit 3: one request at most per        *)
(* invocation, no threshold evaluation, the domain's cache file untouched. *)
C7_RequestErrorIsTerminal ==
    \A p \in Procs :
        /\ inv[p].requests <= 1
        /\ inv[p].fetched = "error"
              => /\ inv[p].pc = "exited" /\ inv[p].exit = 3
                 /\ Len(inv[p].stdout) = 1 /\ inv[p].stdout[1].prefix = "UNKNOWN"
                 /\ inv[p].requests = 1
                 /\ ~inv[p].evaluated /\ ~inv[p].wrote
                 /\ files[inv[p].domain] = inv[p].before

\* The request failed over a stale cache file, which is still there.
C7_Witness ==
    \E p \in Procs :
        /\ inv[p].fetched = "error" /\ inv[p].pc = "exited"
        /\ inv[p].before.exists /\ inv[p].before.data = DateLong
        /\ files[inv[p].domain] = inv[p].before

-----------------------------------------------------------------------------
(* C9 as stated: an error of save_to_cache is not caught: the process ends *)
(* with a fatal error, not with an UNKNOWN report.                         *)
C9_SaveErrorUncaught ==
    \A p \in Procs :
        inv[p].save_error => ~(inv[p].died /\ inv[p].exit = 3)

(* C9 as amended: an error of save_to_cache is raised inside the try block *)
(* of get_domain_expiration and caught by its "except Exception": the      *)
(* invocation ends through die with "UNKNOWN - Error fetching RDAP data",  *)
(* exit 3, and main evaluates nothing.                                     *)
C9_SaveErrorIsUnknown ==
    \A p \in Procs :
        inv[p].save_error
            => /\ inv[p].pc = "exited" /\ inv[p].died /\ inv[p].exit = 3
               /\ inv[p].stdout = <<Message("UNKNOWN", "Error fetching RDAP data", 0)>>
               /\ ~inv[p].evaluated

\* The service gave a date, the save failed, the invocation reported UNKNOWN.
C9_Witness ==
    \E p \in Procs :
        /\ inv[p].save_error /\ inv[p].pc = "exited" /\ inv[p].exit = 3
        /\ inv[p].picked = PyStr(DateLong)
        /\ inv[p].requests = 1

-----------------------------------------------------------------------------
(* The evaluation of main on its own: an invocation that has just had a    *)
(* cache hit, over a wider range of dates, clocks and thresholds.          *)

Fraction == <<".", "1", "2", "3", "4", "5", "6">>

\* Cached texts: dates from two days before NowStart to three days after
\* it, at the first and at the last second of the day; ten and thirty days
\* after it; format A with a fraction; texts no format matches.
EvalDates ==
    {IsoText(2025, 2, d, 0, 0, 0) \o Z : d \in {27, 28}}
    \cup {IsoText(2025, 3, d, 0, 0, 0) \o Z : d \in {1, 2, 3, 4, 11, 31}}
    \cup {IsoText(2025, 3, d, 23, 59, 59) \o Z : d \in {1, 2}}
    \cup {IsoText(2025, 2, 28, 23, 59, 59) \o Fraction \o Z,
          IsoText(2025, 3, 2, 0, 0, 0) \o Fraction \o Z,
          IsoText(2025, 3, 3, 0, 0, 0) \o <<".", "5">> \o Z}
    \cup {<<"n", "o", "t", "-", "a", "-", "d", "a", "t", "e">>,
          IsoText(2025, 2, 30, 0, 0, 0) \o Z,
          IsoText(2025, 3, 1, 0, 0, 0) \o <<"+", "0", "0", ":", "0", "0">>}

EvalNows == {NowStart, NowStart + 1}

\* -w and -c: any integers, and the defaults.
EvalWarnings == {-1, 0, 1, 2, DefaultWarning}
EvalCriticals == {-1, 0, 1, 2, 3, DefaultCritical}

InitEval ==
    /\ now \in EvalNows
    /\ ticks = 0
    /\ runs = 1
    /\ utcoffset \in UtcOffsets
    /\ sequential = TRUE
    /\ \E date \in EvalDates, w \in EvalWarnings, c \in EvalCriticals :
          LET file == [exists |-> TRUE, data |-> date, mtime |-> now,
                       saved |-> PyStr(date), writer |-> 1]
          IN /\ files = [d \in Domains |-> IF d = "example.com" THEN file ELSE NoFile]
             /\ inv = [p \in Procs |->
                   IF p = 1
                   THEN [Idle EXCEPT !.pc = "evaluate", !.domain = "example.com",
                                     !.warning = w, !.critical = c,
                                     !.seen = file, !.seen_at = now,
                                     !.cached = PyStr(date),
                                     !.expiration_date = date]
                   ELSE Idle]

NextEval == \E p \in Procs : Evaluate(p)

SpecEval == InitEval /\ [][NextEval]_vars

\* main computed days_left and reported through the threshold chain.
Evaluated(p) == inv[p].pc = "exited" /\ inv[p].evaluated

\* The invocation ended with this exit code and this one line.
Ended(p, code, prefix, details, days) ==
    /\ inv[p].exit = code
    /\ inv[p].stdout = <<Message(prefix, details, days)>>

\* days_left is the floor of (exp_seconds - now_seconds) / 86400.
DaysLeftIsFloor(p) ==
    LET diff == inv[p].parsed.value - inv[p].now_seconds
    IN /\ inv[p].days_left * 86400 <= diff
       /\ diff < (inv[p].days_left + 1) * 86400

\* The decision of main, first match winning.
DecisionOrder(p) ==
    LET d == inv[p].days_left
        w == inv[p].warning
        c == inv[p].critical
    IN /\ d < 0 => Ended(p, 2, "CRITICAL", "expired days ago", -d)
       /\ d >= 0 /\ d < c => Ended(p, 2, "CRITICAL", "will expire in days", d)
       /\ d >= 0 /\ d >= c /\ d < w => Ended(p, 1, "WARNING", "will expire in days", d)
       /\ d >= 0 /\ d >= c /\ d >= w => Ended(p, 0, "OK", "will expire in days", d)

(* C2 as stated: days_left is the floor of (exp - now) / 86400 and the     *)
(* outcome follows the decision order; days_left == critical never yields  *)
(* CRITICAL and days_left == warning yields OK, for all integer            *)
(* thresholds.                                                             *)
C2_EqualityNeverCritical ==
    \A p \in Procs :
        Evaluated(p)
            => /\ DaysLeftIsFloor(p)
               /\ DecisionOrder(p)
               /\ inv[p].days_left = inv[p].critical => inv[p].exit # 2
               /\ inv[p].days_left = inv[p].warning => inv[p].exit = 0

(* C2 as amended: days_left is the floor of (exp - now) / 86400 and the     *)
(* outcome follows the decision order, first match winning.  The           *)
(* comparisons are strict: days_left == critical yields CRITICAL only when *)
(* days_left < 0, and days_left == warning yields OK only when             *)
(* 0 <= days_left and critical <= days_left, CRITICAL otherwise.           *)
C2_DecisionOrder ==
    \A p \in Procs :
        Evaluated(p)
            => /\ DaysLeftIsFloor(p)
               /\ DecisionOrder(p)
               /\ inv[p].days_left = inv[p].critical
                     => (inv[p].exit = 2 <=> inv[p].days_left < 0)
               /\ inv[p].days_left = inv[p].warning
                     => IF inv[p].days_left >= 0 /\ inv[p].critical <= inv[p].days_left
                        THEN inv[p].exit = 0
                        ELSE inv[p].exit = 2

\* One day is left with -c 1 -w 2: WARNING, not CRITICAL.
C2_Witness ==
    \E p \in Procs :
        /\ Evaluated(p)
        /\ inv[p].days_left = 1 /\ inv[p].critical = 1 /\ inv[p].warning = 2
        /\ Ended(p, 1, "WARNING", "will expire in days", 1)

-----------------------------------------------------------------------------
\* The epoch second of the date and time a text gives, read as UTC, its
\* fraction dropped.
WrittenUtcSecond(text) ==
    LET a == strptime(text, FormatA)
        b == strptime(text, FormatB)
    IN UtcSeconds(IF a.ok THEN a.fields ELSE b.fields)

(* C8: for a text in either format, parse_rdap_date returns the UTC epoch  *)
(* second of the written date and time, whatever the time zone of the      *)
(* host, so that the same instant in format A and in format B gives the    *)
(* same integer.                                                           *)
C8_ParsedAsUtc ==
    \A p \in Procs :
        inv[p].pc = "exited" /\ inv[p].parsed.ok
            => inv[p].parsed.value = WrittenUtcSecond(inv[p].expiration_date)

-----------------------------------------------------------------------------
(* Two invocations that overlap, from an empty cache directory.  They last  *)
(* seconds, so the clock, whose steps are hours, stands still.             *)

InitRace ==
    /\ now = NowStart
    /\ ticks = 0
    /\ runs = 0
    /\ utcoffset \in UtcOffsets
    /\ sequential = FALSE
    /\ files = [d \in Domains |-> NoFile]
    /\ inv = [p \in Procs |-> Idle]

\* Command lines with the default thresholds.
RaceCommandLines ==
    {[valid |-> TRUE, domain |-> d, warning |-> PyNone, critical |-> PyNone] : d \in Domains}

\* Bodies with one dated "expiration" entry, of different lengths.
RaceResponses ==
    { <<Event("expiration", PyStr(DateLong))>>,
      <<Event("expiration", PyStr(DateShort))>> }

NextRace ==
    \/ \E p \in Procs, argv \in RaceCommandLines : Invoke(p, argv)
    \/ \E p \in Procs : LoadCache(p)
    \/ \E p \in Procs : RequestFails(p)
    \/ \E p \in Procs, events \in RaceResponses, opened \in BOOLEAN :
          RequestAnswers(p, events, opened)
    \/ \E p \in Procs, written \in BOOLEAN : WriteCache(p, written)
    \/ \E p \in Procs : Evaluate(p)

SpecRace == InitRace /\ [][NextRace]_vars

\* p and q both missed the cache of one domain, wrote it and ended, and
\* the write of q reached the file last.
BothWroteLast(p, q) ==
    /\ p # q
    /\ inv[p].pc = "exited" /\ inv[q].pc = "exited"
    /\ inv[p].wrote /\ inv[q].wrote
    /\ inv[p].domain = inv[q].domain
    /\ files[inv[q].domain].writer = q

(* C10 as stated: once both invocations have ended, the cache file holds   *)
(* exactly the text of the one that wrote last, never a mixture.           *)
C10_LastWriterExactly ==
    \A p, q \in Procs :
        BothWroteLast(p, q) => files[inv[q].domain].data = inv[q].picked.s

(* C10 as amended: once both invocations have ended, the cache file begins *)
(* with the complete text of the one that wrote last.  It is exactly that  *)
(* text when the other text is no longer; when the other text is longer    *)
(* and was written between the two truncations and the last write, its     *)
(* tail follows: a mixture of the two.  A reader may find the file empty   *)
(* between a truncation and the write.                                     *)
C10_LastWriterThenTail ==
    \A p, q \in Procs :
        BothWroteLast(p, q)
            => LET data == files[inv[q].domain].data
                   last == inv[q].picked.s
                   other == inv[p].picked.s
               IN /\ Len(data) >= Len(last)
                  /\ SubSeq(data, 1, Len(last)) = last
                  /\ \/ data = last
                     \/ data = last \o SubSeq(other, Len(last) + 1, Len(other))
                  /\ Len(other) <= Len(last) => data = last

\* q opened the file between the open() and the write() of p, the longer
\* text was written last, and the file holds it whole.
C10_Witness ==
    \E p, q \in Procs :
        /\ BothWroteLast(p, q)
        /\ inv[q].before.exists /\ inv[q].before.data = <<>>
        /\ inv[p].picked = PyStr(DateShort) /\ inv[q].picked = PyStr(DateLong)
        /\ files[inv[q].domain].data = DateLong

\* An invocation read the file, empty, while the other was between its
\* open() and its write().
ReaderSawEmptyFile ==
    \E p, q \in Procs :
        /\ p # q /\ inv[q].pc = "write" /\ inv[p].pc = "request"
        /\ inv[p].domain = inv[q].domain
        /\ inv[p].seen.exists /\ inv[p].seen.data = <<>>

=============================================================================
